---- MODULE Spec2Model ----
(***************************************************************************)
(* Model of src/app.py, the "Polymarket Solidity Scanner" script: the      *)
(* credential gate, the synthetic depth sampler get_order_book_depth, the  *)
(* scorer calculate_solidity_score, the ranking assembly loop, the sort    *)
(* and the metric cards.                                                   *)
(*                                                                         *)
(* Python floats are IEEE-754 binary64 values.  They are modelled exactly: *)
(* a float is sign * m * 2^e with m an odd natural below 2^53 (or zero),   *)
(* and every arithmetic operation rounds its exact result to the nearest   *)
(* such value, ties to even.  TLC's integers are 32 bits wide, so the      *)
(* mantissas are held as little-endian sequences of 15-bit limbs.  All     *)
(* values of the program stay between 1e-5 and 1e6 in magnitude, so        *)
(* exponent overflow and subnormals do not arise and are not modelled.     *)
(***************************************************************************)
EXTENDS Integers, Sequences, FiniteSets, TLC

(***************************************************************************)
(* Naturals of arbitrary size: little-endian limbs in base 2^15, no high   *)
(* zero limb; <<>> is zero.                                                *)
(***************************************************************************)
LimbBits == 15

Base == 2^LimbBits

RECURSIVE Trim(_)
Trim(a) ==
  IF a = <<>> THEN a
  ELSE IF a[Len(a)] = 0 THEN Trim(SubSeq(a, 1, Len(a) - 1)) ELSE a

RECURSIVE NatToBig(_)
NatToBig(n) == IF n = 0 THEN <<>> ELSE <<n % Base>> \o NatToBig(n \div Base)

RECURSIVE BigToNat(_)
BigToNat(a) == IF a = <<>> THEN 0 ELSE Head(a) + Base * BigToNat(Tail(a))

RECURSIVE AddC(_, _, _)
AddC(a, b, c) ==
  IF a = <<>> /\ b = <<>> THEN (IF c = 0 THEN <<>> ELSE <<c>>)
  ELSE LET x == IF a = <<>> THEN 0 ELSE Head(a)
           y == IF b = <<>> THEN 0 ELSE Head(b)
           s == x + y + c
       IN <<s % Base>> \o AddC(IF a = <<>> THEN a ELSE Tail(a),
                               IF b = <<>> THEN b ELSE Tail(b), s \div Base)

BigAdd(a, b) == AddC(a, b, 0)

\* a - b for a >= b
RECURSIVE SubB(_, _, _)
SubB(a, b, c) ==
  IF a = <<>> THEN <<>>
  ELSE LET y == IF b = <<>> THEN 0 ELSE Head(b)
           d == Head(a) - y - c
       IN <<IF d < 0 THEN d + Base ELSE d>>
          \o SubB(Tail(a), IF b = <<>> THEN b ELSE Tail(b), IF d < 0 THEN 1 ELSE 0)

BigSub(a, b) == Trim(SubB(a, b, 0))

\* -1, 0, 1 as a < b, a = b, a > b
RECURSIVE CmpFrom(_, _, _)
CmpFrom(a, b, i) ==
  IF i = 0 THEN 0
  ELSE IF a[i] < b[i] THEN -1
  ELSE IF a[i] > b[i] THEN 1
  ELSE CmpFrom(a, b, i - 1)

BigCmp(a, b) ==
  IF Len(a) < Len(b) THEN -1
  ELSE IF Len(a) > Len(b) THEN 1
  ELSE CmpFrom(a, b, Len(a))

\* a * k + c for a limb-sized k
RECURSIVE MulSmallC(_, _, _)
MulSmallC(a, k, c) ==
  IF a = <<>> THEN (IF c = 0 THEN <<>> ELSE <<c>>)
  ELSE LET p == Head(a) * k + c
       IN <<p % Base>> \o MulSmallC(Tail(a), k, p \div Base)

BigMulSmall(a, k) == IF k = 0 THEN <<>> ELSE MulSmallC(a, k, 0)

RECURSIVE BigMul(_, _)
BigMul(a, b) ==
  IF a = <<>> \/ b = <<>> THEN <<>>
  ELSE BigAdd(BigMulSmall(a, Head(b)), Trim(<<0>> \o BigMul(a, Tail(b))))

Zeros(k) == [i \in 1..k |-> 0]

\* a * 2^n
BigShl(a, n) ==
  IF a = <<>> THEN a
  ELSE Zeros(n \div LimbBits) \o BigMulSmall(a, 2^(n % LimbBits))

\* quotient and remainder of a by a small divisor d (d <= Base): long
\* division from the high limb i down, r the running remainder
RECURSIVE DivSmallFrom(_, _, _, _, _)
DivSmallFrom(a, d, i, r, q) ==
  IF i = 0 THEN [q |-> Trim(q), r |-> r]
  ELSE LET cur == r * Base + a[i]
       IN DivSmallFrom(a, d, i - 1, cur % d, <<cur \div d>> \o q)

BigDivSmall(a, d) == DivSmallFrom(a, d, Len(a), 0, <<>>)

\* quotient and remainder of a by 2^n
BigDivPow2(a, n) ==
  LET k == n \div LimbBits
      b == n % LimbBits
  IN IF Len(a) <= k THEN [q |-> <<>>, r |-> a]
     ELSE LET hi == BigDivSmall(SubSeq(a, k + 1, Len(a)), 2^b)
          IN [q |-> hi.q, r |-> Trim(SubSeq(a, 1, k) \o <<hi.r>>)]

RECURSIVE IntBits(_)
IntBits(x) == IF x = 0 THEN 0 ELSE 1 + IntBits(x \div 2)

BitLen(a) == IF a = <<>> THEN 0 ELSE LimbBits * (Len(a) - 1) + IntBits(a[Len(a)])

RECURSIVE IntTrailingZeros(_)
IntTrailingZeros(x) == IF x % 2 = 1 THEN 0 ELSE 1 + IntTrailingZeros(x \div 2)

RECURSIVE ZeroLimbs(_)
ZeroLimbs(a) == IF Head(a) # 0 THEN 0 ELSE 1 + ZeroLimbs(Tail(a))

\* the number of trailing zero bits of a nonzero a
TrailingZeros(a) ==
  LET k == ZeroLimbs(a) IN LimbBits * k + IntTrailingZeros(a[k + 1])

(***************************************************************************)
(* binary64 values and their correctly rounded operations.                 *)
(***************************************************************************)
MantBits == 53

FZero == [neg |-> FALSE, m |-> <<>>, e |-> 0]

\* the float sign * N * 2^e for N of at most 53 bits: exact, made canonical
Canon(neg, N, e) ==
  IF N = <<>> THEN FZero
  ELSE LET z == TrailingZeros(N)
       IN [neg |-> neg, m |-> BigDivPow2(N, z).q, e |-> e + z]

\* round-to-nearest-even of sign * (N + f) * 2^e, where 0 <= f < 1 and
\* sticky says f > 0; with sticky, N has at least 54 bits
RoundNearestEven(neg, N, e, sticky) ==
  LET bl == BitLen(N)
  IN IF bl <= MantBits THEN Canon(neg, N, e)
     ELSE LET s == bl - MantBits
              d == BigDivPow2(N, s)
              c == BigCmp(d.r, BigShl(<<1>>, s - 1))
              up == c > 0 \/ (c = 0 /\ (sticky \/ d.q[1] % 2 = 1))
          IN Canon(neg, IF up THEN BigAdd(d.q, <<1>>) ELSE d.q, e + s)

\* int -> float (exact for |n| < 2^31)
FromInt(n) == Canon(n < 0, NatToBig(IF n < 0 THEN -n ELSE n), 0)

FNeg(x) == IF x.m = <<>> THEN x ELSE [x EXCEPT !.neg = ~x.neg]

FMul(x, y) ==
  IF x.m = <<>> \/ y.m = <<>> THEN FZero
  ELSE RoundNearestEven(x.neg # y.neg, BigMul(x.m, y.m), x.e + y.e, FALSE)

FAdd(x, y) ==
  IF x.m = <<>> THEN y
  ELSE IF y.m = <<>> THEN x
  ELSE LET e0 == IF x.e < y.e THEN x.e ELSE y.e
           X == BigShl(x.m, x.e - e0)
           Y == BigShl(y.m, y.e - e0)
           c == BigCmp(X, Y)
       IN IF x.neg = y.neg THEN RoundNearestEven(x.neg, BigAdd(X, Y), e0, FALSE)
          ELSE IF c = 0 THEN FZero
          ELSE IF c > 0 THEN RoundNearestEven(x.neg, BigSub(X, Y), e0, FALSE)
          ELSE RoundNearestEven(y.neg, BigSub(Y, X), e0, FALSE)

FSub(x, y) == FAdd(x, FNeg(y))

\* x / d for a float x and a small positive integer d (d < 2^14)
FDivInt(x, d) ==
  IF x.m = <<>> THEN FZero
  ELSE LET qr == BigDivSmall(Zeros(5) \o x.m, d)
       IN RoundNearestEven(x.neg, qr.q, x.e - 5 * LimbBits, qr.r # 0)

\* -1, 0, 1 as |x| < |y|, |x| = |y|, |x| > |y|, for nonzero x and y
MagCmp(x, y) ==
  LET tx == x.e + BitLen(x.m)
      ty == y.e + BitLen(y.m)
      e0 == IF x.e < y.e THEN x.e ELSE y.e
  IN IF tx < ty THEN -1
     ELSE IF tx > ty THEN 1
     ELSE BigCmp(BigShl(x.m, x.e - e0), BigShl(y.m, y.e - e0))

\* x < y
FLt(x, y) ==
  IF x.m = <<>> THEN y.m # <<>> /\ ~y.neg
  ELSE IF y.m = <<>> THEN x.neg
  ELSE IF x.neg # y.neg THEN x.neg
  ELSE IF x.neg THEN MagCmp(x, y) > 0
  ELSE MagCmp(x, y) < 0

FLe(x, y) == ~FLt(y, x)

\* Python's min(a, b) and max(a, b): the first argument unless the second
\* is strictly smaller (larger)
FMin(x, y) == IF FLt(y, x) THEN y ELSE x

FMax(x, y) == IF FLt(x, y) THEN y ELSE x

\* the float a decimal literal n / 10^k denotes (k <= 4): the nearest one
Dec(n, k) == FDivInt(FromInt(n), 10^k)

\* the integer nearest x * 10^nd, ties to even: the digits Python's
\* round(x, nd) keeps (float.__round__ rounds the exact binary value)
RoundDigits(x, nd) ==
  LET N == BigMulSmall(x.m, 10^nd)
      mag == IF x.e >= 0 THEN BigToNat(BigShl(N, x.e))
             ELSE LET d == BigDivPow2(N, -x.e)
                      c == BigCmp(d.r, BigShl(<<1>>, -x.e - 1))
                      q == BigToNat(d.q)
                  IN IF c > 0 \/ (c = 0 /\ q % 2 = 1) THEN q + 1 ELSE q
  IN IF x.m = <<>> THEN 0 ELSE IF x.neg THEN -mag ELSE mag

\* round(x, nd): the float nearest the rounded decimal
PyRound(x, nd) == Dec(RoundDigits(x, nd), nd)

(***************************************************************************)
(* The core (src/app.py lines 37-66).                                      *)
(***************************************************************************)
\* random.uniform(a, b) for the value r that random.random() returned
uniform(a, b, r) == FAdd(a, FMul(FSub(b, a), r))

\* the sampler with the volume sum divided by 100 in place of 1000
get_order_book_depth_scaled(market_id, bids_volume, asks_volume, r_spread, r_vol) ==
  [liquidity_score |-> FDivInt(FromInt(bids_volume + asks_volume), 100),
   spread |-> PyRound(uniform(Dec(1, 3), Dec(5, 2), r_spread), 4),
   volatility |-> uniform(Dec(1, 2), Dec(1, 1), r_vol)]

\* get_order_book_depth with its four random draws made explicit:
\* the two randint results and the two random() results behind uniform
get_order_book_depth(market_id, bids_volume, asks_volume, r_spread, r_vol) ==
  [liquidity_score |-> FDivInt(FromInt(bids_volume + asks_volume), 1000),
   spread |-> PyRound(uniform(Dec(1, 3), Dec(5, 2), r_spread), 4),
   volatility |-> uniform(Dec(1, 2), Dec(1, 1), r_vol)]

\* the liquidity term without its division by 100
l_score_unnormalised(liquidity) == FMin(liquidity, FromInt(100))

l_score(liquidity) == FMin(FDivInt(liquidity, 100), FromInt(100))

\* the spread penalty with the factor 200 in place of 2000
s_score_200(spread) == FMax(FZero, FSub(FromInt(100), FMul(spread, FromInt(200))))

s_score(spread) == FMax(FZero, FSub(FromInt(100), FMul(spread, FromInt(2000))))

\* the volatility penalty with the operands of the subtraction exchanged
v_score_swapped(volatility) ==
  FMax(FZero, FSub(FMul(volatility, FromInt(500)), FromInt(100)))

\* the volatility penalty with the factor 1000 in place of 500
v_score_1000(volatility) ==
  FMax(FZero, FSub(FromInt(100), FMul(volatility, FromInt(1000))))

v_score(volatility) == FMax(FZero, FSub(FromInt(100), FMul(volatility, FromInt(500))))

\* the weighted sum with the volatility term subtracted
total_subtracts(liquidity, spread, volatility) ==
  FSub(FAdd(FMul(l_score(liquidity), Dec(5, 1)), FMul(s_score(spread), Dec(3, 1))),
       FMul(v_score(volatility), Dec(2, 1)))

total(liquidity, spread, volatility) ==
  FAdd(FAdd(FMul(l_score(liquidity), Dec(5, 1)), FMul(s_score(spread), Dec(3, 1))),
       FMul(v_score(volatility), Dec(2, 1)))

calculate_solidity_score(liquidity, spread, volatility) ==
  PyRound(total(liquidity, spread, volatility), 1)

(***************************************************************************)
(* The script's state.  The script is run top to bottom once per page      *)
(* request; pc is the statement it has reached.  Optional values are held  *)
(* as <<>> (not set) or <<v>>.                                             *)
(***************************************************************************)
VARIABLES
  pc,             \* "gate", "loop", "frame", "cards", then "stopped", "KeyError" or "table"
  use_demo_data,  \* the sidebar checkbox
  rpc_url,        \* the sidebar text input ("" when empty or not rendered)
  sidebar_error,  \* whether st.sidebar.error has shown its message
  calls,          \* how often each core function has been called
  metrics,        \* the script's variable metrics
  score,          \* the script's variable score
  df_data,        \* the list of row dicts
  df,             \* the DataFrame's rows in order
  col1, col2, col3, \* the values given to the three metric cards
  draws,          \* the random draws behind metrics (sampler harness)
  arg, ret, last  \* a scorer call, its results, the call before it (scorer harness)

vars == <<pc, use_demo_data, rpc_url, sidebar_error, calls, metrics, score,
          df_data, df, col1, col2, col3, draws, arg, ret, last>>

None == <<>>

Some(x) == <<x>>

markets ==
  <<[id |-> 1, question |-> "Will Bitcoin exceed $100k in 2025?", category |-> "Crypto"],
    [id |-> 2, question |-> "Will SpaceX land humans on Mars by 2030?", category |-> "Science"],
    [id |-> 3, question |-> "Will generic AI pass the Turing Test?", category |-> "Tech"],
    [id |-> 4, question |-> "Will US GDP grow > 2% in Q4?", category |-> "Economics"],
    [id |-> 5, question |-> "Will Ethereum flip Bitcoin market cap?", category |-> "Crypto"]>>

RandintLow == 50000

RandintHigh == 500000

(***************************************************************************)
(* Outcomes of the random module that the specifications enumerate.        *)
(***************************************************************************)
\* random.random() returns a multiple of 2^-53 in [0, 1); its largest value
RandomMax == Canon(FALSE, BigSub(BigShl(<<1>>, MantBits), <<1>>), -MantBits)

\* level j of n of random(): 0 at level 0, the largest value at level n
RandomLevel(j, n) ==
  IF j = n THEN RandomMax ELSE Canon(FALSE, NatToBig((j * 1024) \div n), -10)

\* level j of n of randint(50000, 500000): both ends are outcomes
RandintLevel(j, n) == RandintLow + (j * (RandintHigh - RandintLow)) \div n

\* levels of the ranking pass: a market's two volumes are at one level j and
\* its spread and volatility draws at the opposite level, so that the pass
\* reaches the worst sample (level 0) and the best one (the top level)
PassLevels == 4

PassDraws ==
  {[bids_volume |-> RandintLevel(j, PassLevels),
    asks_volume |-> RandintLevel(j, PassLevels),
    r_spread |-> RandomLevel(PassLevels - j, PassLevels),
    r_vol |-> RandomLevel(PassLevels - j, PassLevels)] : j \in 0..PassLevels}

\* levels of the sampler harness: the four draws vary independently
IntSteps == 2

RandomSteps == 2

SamplerDraws ==
  [bids_volume : {RandintLevel(j, IntSteps) : j \in 0..IntSteps},
   asks_volume : {RandintLevel(j, IntSteps) : j \in 0..IntSteps},
   r_spread : {RandomLevel(j, RandomSteps) : j \in 0..RandomSteps},
   r_vol : {RandomLevel(j, RandomSteps) : j \in 0..RandomSteps}]

(***************************************************************************)
(* The script (src/app.py lines 27-33 and 79-104).                         *)
(***************************************************************************)
Row(mk, mt, sc) ==
  ("Market Question" :> mk.question) @@ ("Category" :> mk.category)
  @@ ("Solidity Score" :> sc)
  @@ ("Liquidity ($k)" :> PyRound(mt.liquidity_score, 1))
  @@ ("Spread (%)" :> PyRound(FMul(mt.spread, FromInt(100)), 2))
  @@ ("Volatility" :> PyRound(mt.volatility, 3))

\* the columns of a DataFrame built from a list of dicts
Columns(rows) == UNION {DOMAIN rows[i] : i \in DOMAIN rows}

\* df.sort_values(by=key, ascending=False) with the default kind="quicksort",
\* which promises no order among equal keys: every descending order of the
\* rows is an outcome
RECURSIVE Ranks(_, _, _)
Ranks(rows, key, i) ==
  IF i > Len(rows) THEN <<>>
  ELSE <<Cardinality({j \in 1..Len(rows) : FLt(rows[i][key], rows[j][key])})>>
       \o Ranks(rows, key, i + 1)

\* the sort without ascending=False
sort_values_ascending(rows, key) ==
  LET n == Len(rows)
      rank == Ranks(rows, key, 1)
      perms == {p \in Permutations(1..n) : \A i \in 1..(n - 1) : rank[p[i]] >= rank[p[i + 1]]}
  IN {[i \in 1..n |-> rows[p[i]]] : p \in perms}

sort_values(rows, key) ==
  LET n == Len(rows)
      rank == Ranks(rows, key, 1)  \* how many rows have a larger key
      perms == {p \in Permutations(1..n) : \A i \in 1..(n - 1) : rank[p[i]] <= rank[p[i + 1]]}
  IN {[i \in 1..n |-> rows[p[i]]] : p \in perms}

\* df[key].max()
RECURSIVE ColumnMax(_, _)
ColumnMax(rows, key) ==
  IF Len(rows) = 1 THEN rows[1][key]
  ELSE FMax(ColumnMax(SubSeq(rows, 1, Len(rows) - 1), key), rows[Len(rows)][key])

\* df[key].mean()
RECURSIVE ColumnSum(_, _)
ColumnSum(rows, key) ==
  IF rows = <<>> THEN FZero
  ELSE FAdd(ColumnSum(SubSeq(rows, 1, Len(rows) - 1), key), rows[Len(rows)][key])

ColumnMean(rows, key) == FDivInt(ColumnSum(rows, key), Len(rows))

Idle == draws = None /\ arg = None /\ ret = None /\ last = None

Init ==
  /\ pc = "gate"
  /\ use_demo_data \in BOOLEAN
  /\ rpc_url \in (IF use_demo_data THEN {""} ELSE {"", "https://polygon-rpc.com"})
  /\ sidebar_error = FALSE
  /\ calls = [get_order_book_depth |-> 0, calculate_solidity_score |-> 0]
  /\ metrics = None /\ score = None
  /\ df_data = <<>> /\ df = None
  /\ col1 = None /\ col2 = None /\ col3 = None
  /\ Idle

\* the gate without its st.stop()
Gate_NoStop ==
  /\ pc = "gate"
  /\ sidebar_error' = (~use_demo_data /\ rpc_url = "")
  /\ pc' = "loop"
  /\ UNCHANGED <<use_demo_data, rpc_url, calls, metrics, score, df_data, df,
                 col1, col2, col3, draws, arg, ret, last>>

\* lines 27-33: without demo data and without a URL, show the error and st.stop()
Gate ==
  /\ pc = "gate"
  /\ IF ~use_demo_data /\ rpc_url = ""
     THEN sidebar_error' = TRUE /\ pc' = "stopped"
     ELSE sidebar_error' = sidebar_error /\ pc' = "loop"
  /\ UNCHANGED <<use_demo_data, rpc_url, calls, metrics, score, df_data, df,
                 col1, col2, col3, draws, arg, ret, last>>

\* lines 80-91: one iteration of the for loop over markets
LoopBody ==
  /\ pc = "loop"
  /\ \E d \in PassDraws :
       LET mk == markets[Len(df_data) + 1]
       IN \E mt \in {get_order_book_depth(mk.id, d.bids_volume, d.asks_volume,
                                          d.r_spread, d.r_vol)} :
            \E sc \in {calculate_solidity_score(mt.liquidity_score, mt.spread,
                                                mt.volatility)} :
              /\ metrics' = Some(mt)
              /\ score' = Some(sc)
              /\ df_data' = Append(df_data, Row(mk, mt, sc))
  /\ calls' = [get_order_book_depth |-> calls.get_order_book_depth + 1,
               calculate_solidity_score |-> calls.calculate_solidity_score + 1]
  /\ pc' = IF Len(df_data) + 1 = Len(markets) THEN "frame" ELSE "loop"
  /\ UNCHANGED <<use_demo_data, rpc_url, sidebar_error, df, col1, col2, col3,
                 draws, arg, ret, last>>

\* lines 93-96: build the DataFrame and sort it
Sort ==
  /\ pc = "frame"
  /\ df' \in sort_values(df_data, "Solidity Score")
  /\ pc' = "cards"
  /\ UNCHANGED <<use_demo_data, rpc_url, sidebar_error, calls, metrics, score,
                 df_data, col1, col2, col3, draws, arg, ret, last>>

\* lines 101-104: the three metric cards.  The third reads the column
\* 'Liquidity ($)'; a column the frame lacks raises KeyError, which ends the
\* run with the first two cards shown.  Lines 106-151 (table and chart) come
\* after it.
MetricCards ==
  /\ pc = "cards"
  /\ col1' = Some(Len(df))
  /\ col2' = Some(ColumnMax(df, "Solidity Score"))
  /\ IF "Liquidity ($)" \in Columns(df)
     THEN col3' = Some(RoundDigits(ColumnMean(df, "Liquidity ($)"), 0)) /\ pc' = "table"
     ELSE col3' = None /\ pc' = "KeyError"
  /\ UNCHANGED <<use_demo_data, rpc_url, sidebar_error, calls, metrics, score,
                 df_data, df, draws, arg, ret, last>>

Next == Gate \/ LoopBody \/ Sort \/ MetricCards

Spec == Init /\ [][Next]_vars

(***************************************************************************)
(* Sampler harness: one call of get_order_book_depth for any market        *)
(* identifier and any outcome of its four draws, then the scoring of the   *)
(* sample as the loop does it (lines 81-82).                               *)
(***************************************************************************)
\* the known identifiers and one that names no market
SamplerIds == {markets[i].id : i \in DOMAIN markets} \cup {0}

Sampled(id, d) ==
  get_order_book_depth(id, d.bids_volume, d.asks_volume, d.r_spread, d.r_vol)

ScriptIdle ==
  /\ use_demo_data = TRUE /\ rpc_url = "" /\ sidebar_error = FALSE
  /\ calls = [get_order_book_depth |-> 0, calculate_solidity_score |-> 0]
  /\ df_data = <<>> /\ df = None
  /\ col1 = None /\ col2 = None /\ col3 = None

SamplerInit ==
  /\ pc = "sample"
  /\ metrics = None /\ score = None
  /\ ScriptIdle /\ Idle

Sample ==
  /\ pc = "sample"
  /\ \E id \in SamplerIds, d \in SamplerDraws :
       /\ draws' = Some([market_id |-> id, d |-> d])
       /\ metrics' = Some(Sampled(id, d))
  /\ calls' = [calls EXCEPT !.get_order_book_depth = @ + 1]
  /\ pc' = "score"
  /\ UNCHANGED <<use_demo_data, rpc_url, sidebar_error, score, df_data, df,
                 col1, col2, col3, arg, ret, last>>

ScoreSample ==
  /\ pc = "score"
  /\ score' = Some(calculate_solidity_score(metrics[1].liquidity_score,
                                            metrics[1].spread, metrics[1].volatility))
  /\ calls' = [calls EXCEPT !.calculate_solidity_score = @ + 1]
  /\ pc' = "sampled"
  /\ UNCHANGED <<use_demo_data, rpc_url, sidebar_error, metrics, df_data, df,
                 col1, col2, col3, draws, arg, ret, last>>

SamplerNext == Sample \/ ScoreSample

SamplerSpec == SamplerInit /\ [][SamplerNext]_vars

(***************************************************************************)
(* Scorer harness: calculate_solidity_score on inputs inside and outside   *)
(* the sampler's range, then once more with one argument changed.          *)
(***************************************************************************)
LiquidityInputs == {Dec(n, 0) : n \in {0, 550, 2000, 10000, 20000}}

\* the largest float below x (x not a power of two)
FPred(x) ==
  LET k == MantBits - BitLen(x.m)
  IN Canon(x.neg, BigSub(BigShl(x.m, k), <<1>>), x.e - k)

SpreadInputs == {Dec(n, 4) : n \in {0, 10, 250, 500, 600}} \cup {FPred(Dec(5, 2))}

VolatilityInputs ==
  {Dec(n, 4) : n \in {0, 100, 1000, 1999, 2000, 3000}} \cup {FPred(Dec(2, 1))}

ScoreInputs ==
  [liquidity : LiquidityInputs, spread : SpreadInputs, volatility : VolatilityInputs]

\* the values the function computes on the way, and the value it returns
ScoreResult(a) ==
  [l_score |-> l_score(a.liquidity),
   s_score |-> s_score(a.spread),
   v_score |-> v_score(a.volatility),
   total |-> total(a.liquidity, a.spread, a.volatility),
   score |-> calculate_solidity_score(a.liquidity, a.spread, a.volatility)]

ScoreInit ==
  /\ pc = "call"
  /\ arg \in {Some(a) : a \in ScoreInputs}
  /\ ret = None /\ last = None /\ draws = None
  /\ metrics = None /\ score = None
  /\ ScriptIdle

ScoreCall ==
  /\ pc = "call"
  /\ ret' = Some(ScoreResult(arg[1]))
  /\ calls' = [calls EXCEPT !.calculate_solidity_score = @ + 1]
  /\ pc' = "returned"
  /\ UNCHANGED <<use_demo_data, rpc_url, sidebar_error, metrics, score, df_data,
                 df, col1, col2, col3, draws, arg, last>>

\* the second call: one argument replaced, the other two held fixed
Vary ==
  /\ pc = "returned"
  /\ last = None
  /\ \E b \in ScoreInputs :
       /\ Cardinality({f \in DOMAIN b : b[f] # arg[1][f]}) = 1
       /\ arg' = Some(b)
  /\ last' = Some([arg |-> arg[1], ret |-> ret[1]])
  /\ ret' = None
  /\ pc' = "call"
  /\ UNCHANGED <<use_demo_data, rpc_url, sidebar_error, calls, metrics, score,
                 df_data, df, col1, col2, col3, draws>>

ScoreNext == ScoreCall \/ Vary

ScoreSpec == ScoreInit /\ [][ScoreNext]_vars

(***************************************************************************)
(* Properties.                                                             *)
(***************************************************************************)
Between(lo, x, hi) == FLe(lo, x) /\ FLe(x, hi)

ScoreOf(row) == row["Solidity Score"]

\* C1: with simulated data disabled and no RPC URL entered, the run halts at
\* the gate: neither core function is ever called, no row is appended, and
\* no ranking and no summary number is produced.
C1_HaltsBeforeCore ==
  (~use_demo_data /\ rpc_url = "") =>
    /\ pc \in {"gate", "stopped"}
    /\ calls.get_order_book_depth = 0 /\ calls.calculate_solidity_score = 0
    /\ df_data = <<>> /\ df = None
    /\ col1 = None /\ col2 = None /\ col3 = None

C1_Halted ==
  ~use_demo_data /\ rpc_url = "" /\ pc = "stopped" /\ sidebar_error

\* C2: a pass with simulated data enabled never ends in an error state: once
\* it is past the metric cards it has exposed all three summary numbers.
C2_DemoPassExposesAll ==
  (use_demo_data /\ pc \notin {"gate", "loop", "frame", "cards"}) =>
    pc # "KeyError" /\ col1 # None /\ col2 # None /\ col3 # None

\* C3: the sorted result has non-increasing Solidity Scores, is a permutation
\* of the five generated rows, and its first row has the maximum score.
C3_RankingInvariant ==
  df # None =>
    /\ Len(df) = Len(markets) /\ Len(df_data) = Len(markets)
    /\ \A i \in 1..(Len(df) - 1) : FLe(ScoreOf(df[i + 1]), ScoreOf(df[i]))
    /\ \E p \in Permutations(DOMAIN df_data) : \A i \in DOMAIN df : df[i] = df_data[p[i]]
    /\ \A i \in DOMAIN df_data : FLe(ScoreOf(df_data[i]), ScoreOf(df[1]))

C3_Reordered ==
  /\ df # None /\ df # df_data
  /\ FLt(ScoreOf(df[Len(df)]), ScoreOf(df[1]))
  /\ \E i \in 1..(Len(df) - 1) : ScoreOf(df[i]) = ScoreOf(df[i + 1])

\* the position of a row in the generation order
PositionIn(rows, row) == CHOOSE i \in DOMAIN rows : rows[i] = row

\* C4: the sort is stable: rows with equal Solidity Scores appear in the
\* ranking in their generation order.
C4_TiesKeepGenerationOrder ==
  df # None =>
    \A i, j \in DOMAIN df :
      (i < j /\ ScoreOf(df[i]) = ScoreOf(df[j])) =>
        PositionIn(df_data, df[i]) < PositionIn(df_data, df[j])

InEnvelope(a) ==
  /\ Between(FZero, a.liquidity, FromInt(2000))
  /\ Between(FZero, a.spread, Dec(5, 2))
  /\ Between(FZero, a.volatility, Dec(1, 1))

\* C5: for liquidity in [0, 2000], spread in [0, 0.05] and volatility in
\* [0, 0.1] the returned score lies in [0, 100].
C5_ScoreInRange ==
  (ret # None /\ InEnvelope(arg[1])) => Between(FZero, ret[1].score, FromInt(100))

C5_EnvelopeCorner ==
  /\ ret # None
  /\ arg[1] = [liquidity |-> FromInt(2000), spread |-> FZero, volatility |-> FZero]
  /\ ret[1].score = FromInt(60)

C6_Input == [liquidity |-> FromInt(550), spread |-> Dec(1, 3), volatility |-> Dec(1, 2)]

\* C6 as stated: calculate_solidity_score(550, 0.001, 0.01) has s_score 99.8
\* and returns 51.7.
C6_Returns517 ==
  (ret # None /\ arg[1] = C6_Input) =>
    ret[1].s_score = Dec(998, 1) /\ ret[1].score = Dec(517, 1)

\* C6 as amended: calculate_solidity_score(550, 0.001, 0.01) has l_score 5.5,
\* s_score 98.0 and v_score 95.0, its total is the float 51.15 (which lies
\* below the decimal 51.15), and it returns 51.1.
C6_Returns511 ==
  (ret # None /\ arg[1] = C6_Input) =>
    /\ ret[1].l_score = Dec(55, 1)
    /\ ret[1].s_score = FromInt(98)
    /\ ret[1].v_score = FromInt(95)
    /\ ret[1].total = Dec(5115, 2)
    /\ ret[1].score = Dec(511, 1)

C6_Called == ret # None /\ arg[1] = C6_Input /\ ret[1].score = Dec(511, 1)

\* C7: the returned (rounded) score is non-decreasing in liquidity, constant
\* once liquidity is at least 10000, and non-increasing in spread and in
\* volatility, the other two arguments held fixed.
C7_Monotone ==
  (ret # None /\ last # None) =>
    LET a == last[1].arg
        b == arg[1]
        ra == last[1].ret.score
        rb == ret[1].score
    IN /\ (a.spread = b.spread /\ a.volatility = b.volatility) =>
            /\ FLe(a.liquidity, b.liquidity) => FLe(ra, rb)
            /\ FLe(b.liquidity, a.liquidity) => FLe(rb, ra)
            /\ (FLe(FromInt(10000), a.liquidity) /\ FLe(FromInt(10000), b.liquidity))
                 => ra = rb
       /\ (a.liquidity = b.liquidity /\ a.volatility = b.volatility) =>
            /\ FLe(a.spread, b.spread) => FLe(rb, ra)
            /\ FLe(b.spread, a.spread) => FLe(ra, rb)
       /\ (a.liquidity = b.liquidity /\ a.spread = b.spread) =>
            /\ FLe(a.volatility, b.volatility) => FLe(rb, ra)
            /\ FLe(b.volatility, a.volatility) => FLe(ra, rb)

C7_VolatilityRaised ==
  /\ ret # None /\ last # None
  /\ FLt(last[1].arg.volatility, arg[1].volatility)
  /\ FLt(ret[1].score, last[1].ret.score)

\* C8: spread 0.05 and every larger spread give s_score 0; volatility 0.1
\* gives v_score 50; v_score is 0 exactly when volatility is at least 0.2;
\* for volatility in [0.01, 0.1] v_score is at least 50.
C8_ZeroCrossings ==
  ret # None =>
    /\ FLe(Dec(5, 2), arg[1].spread) => ret[1].s_score = FZero
    /\ FLt(arg[1].spread, Dec(5, 2)) => FLt(FZero, ret[1].s_score)
    /\ arg[1].volatility = Dec(1, 1) => ret[1].v_score = FromInt(50)
    /\ ret[1].v_score = FZero <=> FLe(Dec(2, 1), arg[1].volatility)
    /\ Between(Dec(1, 2), arg[1].volatility, Dec(1, 1)) => FLe(FromInt(50), ret[1].v_score)

C8_AtBothBoundaries ==
  /\ ret # None
  /\ arg[1].spread = Dec(5, 2) /\ arg[1].volatility = Dec(1, 1)
  /\ ret[1].s_score = FZero /\ ret[1].v_score = FromInt(50)

\* C9: whatever the market identifier and the draws, the sample has
\* liquidity_score = (bid_volume + ask_volume) / 1000 in [100, 1000], a
\* spread of four decimals in [0.001, 0.05] and a volatility in [0.01, 0.1],
\* and it is the same for every identifier.
C9_SampleRanges ==
  metrics # None =>
    LET d == draws[1].d
        mt == metrics[1]
    IN /\ mt.liquidity_score = FDivInt(FromInt(d.bids_volume + d.asks_volume), 1000)
       /\ Between(FromInt(100), mt.liquidity_score, FromInt(1000))
       /\ Between(Dec(1, 3), mt.spread, Dec(5, 2))
       /\ mt.spread = Dec(RoundDigits(mt.spread, 4), 4)
       /\ Between(Dec(1, 2), mt.volatility, Dec(1, 1))
       /\ \A id \in SamplerIds : Sampled(id, d) = mt

C9_UpperCorner ==
  /\ metrics # None
  /\ draws[1].market_id = 0
  /\ metrics[1].liquidity_score = FromInt(1000)
  /\ metrics[1].spread = Dec(5, 2)
  /\ FLt(Dec(999, 4), metrics[1].volatility)

\* C10: the liquidity term of a sampled market is at most 10, the Solidity
\* Score of every generated row lies in [10.5, 53.4], and the 'Safest Market
\* Score' card never shows more than 53.4.
C10_SampledScoreRange ==
  /\ score # None =>
       /\ FLe(l_score(metrics[1].liquidity_score), FromInt(10))
       /\ Between(Dec(105, 1), score[1], Dec(534, 1))
  /\ \A i \in DOMAIN df_data : Between(Dec(105, 1), ScoreOf(df_data[i]), Dec(534, 1))
  /\ col2 # None => FLe(col2[1], Dec(534, 1))

C10_BothEndsReached ==
  /\ col2 = Some(Dec(534, 1))
  /\ \E i \in DOMAIN df_data : ScoreOf(df_data[i]) = Dec(105, 1)

====
